---- MODULE Spec2Model ----
(***************************************************************************)
(* Model of the ATS-Optimizer core: the building thermal model             *)
(* (app/thermal_model.py) and the greedy heat-pump scheduler               *)
(* (app/optimization.py).                                                  *)
(*                                                                         *)
(* Numbers.  The program computes with floats; the model computes with     *)
(* integers in fixed units, so that every comparison the code makes is     *)
(* made on the same quantity:                                              *)
(*   temperatures        milli-degrees Celsius (21.0 C = 21000)            *)
(*   heat flows q_*      milliwatts                                        *)
(*   UA                  W/K        rated_power   kW                       *)
(*   window_area         1/100 m2   U-value       1/100 W/m2K              *)
(*   COP                 1/1000     power fraction  1/10                   *)
(*   prices              EUR/MWh    normalized price  1/1000 of a point    *)
(*   costs               1/10000 EUR                                       *)
(* A quotient is rounded down (\div) where the float would round to        *)
(* nearest.                                                                *)
(*                                                                         *)
(* Python floats and numpy float64 scalars differ on x / 0.0: the former   *)
(* raises ZeroDivisionError, the latter yields inf (and a warning).  A     *)
(* value is therefore carried with a flag np: TRUE when it is a numpy      *)
(* scalar (np.clip returns one, and arithmetic with one yields one).       *)
(***************************************************************************)
EXTENDS Integers, Sequences, FiniteSets, TLC

\* ------------------------------------------------------------------ bounds
\* Short horizons 0..MaxH are enumerated in full next to the 24-hour day.
MaxH == 3

\* The number of optimize() calls made on the singleton in one session.
MaxCalls == 3

\* ------------------------------------------------------- program constants
DAY_HOURS == 24
KELVIN == 273150
GROUND_TEMP == 5000
EFFICIENCY == 450
COP_MIN == 2000
COP_MAX == 5000
DT == 3600
SOLAR_GAIN_FACTOR == 7
WINDOW_FRACTION == 15
MASS_PER_M2 == 100000
ENVELOPE_FACTOR == 4
CHEAP_BELOW == 30000
MODERATE_BELOW == 70000
UNIFORM_NORMALIZED == 50000
ECO_MARGIN == 2000
NORMAL_MARGIN == 500
SCORE_START == 100000
OUTSIDE_PENALTY == 3000
SEVERE_ABOVE == 2000
SEVERE_PENALTY == 5000
AVERAGE_WEIGHT == 10
PENALTY_PER_DEGREE == 100
CYCLING_PENALTY == 5

Modes == {"BOOST", "NORMAL", "ECO", "OFF"}

\* ------------------------------------------------------------ results
\* A call either returns a value or raises: exc is "" on a normal return.
Ret(v, np) == [exc |-> "", value |-> v, np |-> np]
Raise(e) == [exc |-> e, value |-> 0, np |-> FALSE]

\* ------------------------------------------------- BuildingParameters
\* Mutant of get_u_value: every building is taken as poorly insulated.
get_u_value_low(building) == 50

get_u_value(building) ==
    CASE building.insulation_level = "low" -> 50
      [] building.insulation_level = "medium" -> 30
      [] building.insulation_level = "high" -> 17
      [] OTHER -> 30

get_thermal_mass(building) == MASS_PER_M2 * building.floor_area

get_envelope_area(building) == ENVELOPE_FACTOR * building.floor_area

\* ------------------------------------------------- HeatPumpParameters
\* np.clip(x, lo, hi)
clip(x, lo, hi) == IF x < lo THEN lo ELSE IF x > hi THEN hi ELSE x

\* get_cop: np is TRUE when t_outdoor or t_indoor is a numpy scalar.  With a
\* zero denominator the Python-float division raises; the numpy division
\* yields +inf or -inf by the sign of t_hot_k (nan for 0/0, which np.clip
\* passes through; no temperature of the model is -273.15 C).
get_cop(heat_pump, t_outdoor, t_indoor, np) ==
    LET t_hot_k == t_indoor + KELVIN
        t_cold_k == (IF heat_pump.type = "ASHP" THEN t_outdoor ELSE GROUND_TEMP) + KELVIN
        denom == t_hot_k - t_cold_k
    IN  IF denom = 0
        THEN IF ~np THEN Raise("ZeroDivisionError")
             ELSE Ret(IF t_hot_k > 0 THEN COP_MAX ELSE COP_MIN, TRUE)
        ELSE Ret(clip((t_hot_k * EFFICIENCY) \div denom, COP_MIN, COP_MAX), TRUE)

\* --------------------------------------------------- ThermalSimulator
\* ThermalSimulator.__init__: the precomputed coefficients.
ThermalSimulator(building, heat_pump) ==
    [building |-> building,
     heat_pump |-> heat_pump,
     U |-> get_u_value(building),
     A |-> get_envelope_area(building),
     C |-> get_thermal_mass(building),
     UA |-> (get_u_value(building) * get_envelope_area(building)) \div 100,
     window_area |-> WINDOW_FRACTION * building.floor_area,
     solar_gain_factor |-> SOLAR_GAIN_FACTOR]

\* q_heat_pump of simulate_hour: the heat-pump heat input, or the fault of
\* get_cop.
heat_pump_input(sim, t_indoor_current, t_outdoor, heat_pump_on, fraction, np) ==
    IF heat_pump_on
    THEN LET p_electric == sim.heat_pump.rated_power * fraction * 100
             cop == get_cop(sim.heat_pump, t_outdoor, t_indoor_current, np)
         IN  IF cop.exc # "" THEN cop ELSE Ret(cop.value * p_electric, TRUE)
    ELSE Ret(0, np)

\* Mutant of simulate_hour: the envelope loss is added to the balance.
simulate_hour_loss_added(sim, t_indoor_current, t_outdoor, heat_pump_on, fraction, solar_radiation, np) ==
    LET q_loss == sim.UA * (t_indoor_current - t_outdoor)
        q_solar == solar_radiation * sim.window_area * sim.solar_gain_factor
        q_hp == heat_pump_input(sim, t_indoor_current, t_outdoor, heat_pump_on, fraction, np)
        q_net == q_hp.value + q_solar + q_loss
        dt_change == (q_net * (DT \div 400)) \div (sim.C \div 400)
    IN  IF q_hp.exc # "" THEN q_hp
        ELSE Ret(t_indoor_current + dt_change, q_hp.np)

\* simulate_hour with dt = 3600 s.  (q_net * dt) / C is computed with dt and C
\* both divided by 400, which leaves the quotient unchanged and keeps the
\* product within 32 bits.  A floor_area of 0 or less is not enumerated.
simulate_hour(sim, t_indoor_current, t_outdoor, heat_pump_on, fraction, solar_radiation, np) ==
    LET q_loss == sim.UA * (t_indoor_current - t_outdoor)
        q_solar == solar_radiation * sim.window_area * sim.solar_gain_factor
        q_hp == heat_pump_input(sim, t_indoor_current, t_outdoor, heat_pump_on, fraction, np)
        q_net == q_hp.value + q_solar - q_loss
        dt_change == (q_net * (DT \div 400)) \div (sim.C \div 400)
    IN  IF q_hp.exc # "" THEN q_hp
        ELSE Ret(t_indoor_current + dt_change, q_hp.np)

\* Mutant of power_fractions: ECO runs at half power.
power_fractions_eco_half(mode) ==
    CASE mode = "BOOST" -> 10
      [] mode = "NORMAL" -> 7
      [] mode = "ECO" -> 5
      [] mode = "OFF" -> 0

\* power_fractions of _greedy_optimize and estimate_power_consumption.
power_fractions(mode) ==
    CASE mode = "BOOST" -> 10
      [] mode = "NORMAL" -> 7
      [] mode = "ECO" -> 3
      [] mode = "OFF" -> 0

\* Mutant of estimate_power_consumption: the energy follows the temperatures,
\* nothing is drawn while it is warmer outside than inside.
estimate_power_consumption_by_demand(sim, t_outdoor, t_indoor, mode) ==
    IF mode = "OFF" \/ t_outdoor >= t_indoor
    THEN 0
    ELSE sim.heat_pump.rated_power * power_fractions(mode)

\* estimate_power_consumption, in 1/10 kWh.
estimate_power_consumption(sim, t_outdoor, t_indoor, mode) ==
    LET fraction == IF mode \in Modes THEN power_fractions(mode) ELSE 7
    IN  IF mode = "OFF" THEN 0 ELSE sim.heat_pump.rated_power * fraction

\* simulate_day: range(24) whatever the length of its arguments.  The loop of
\* lines 196-209 from `hour` on; calls counts the simulate_hour calls made.
RECURSIVE simulate_day_loop(_, _, _, _, _, _, _, _)
simulate_day_loop(sim, indoor_temps, np, hour, t_outdoor_hourly, heat_pump_schedule, solar_radiation_hourly, calls) ==
    IF hour = DAY_HOURS
    THEN [exc |-> "", temps |-> Tail(indoor_temps), calls |-> calls]
    ELSE IF \/ hour >= Len(t_outdoor_hourly)
            \/ hour >= Len(heat_pump_schedule)
            \/ hour >= Len(solar_radiation_hourly)
         THEN [exc |-> "IndexError", temps |-> <<>>, calls |-> calls]
         ELSE LET power_fraction == 7
                  t_new == simulate_hour(sim, indoor_temps[Len(indoor_temps)],
                                         t_outdoor_hourly[hour + 1],
                                         heat_pump_schedule[hour + 1],
                                         power_fraction,
                                         solar_radiation_hourly[hour + 1], np)
              IN  IF t_new.exc # ""
                  THEN [exc |-> t_new.exc, temps |-> <<>>, calls |-> calls + 1]
                  ELSE simulate_day_loop(sim, Append(indoor_temps, t_new.value), t_new.np,
                                         hour + 1, t_outdoor_hourly, heat_pump_schedule,
                                         solar_radiation_hourly, calls + 1)

\* Mutant of simulate_day: the whole list is returned, the initial temperature
\* first.
simulate_day_with_initial(sim, t_indoor_initial, t_outdoor_hourly, heat_pump_schedule, solar_radiation_hourly) ==
    LET day == simulate_day_loop(sim, <<t_indoor_initial>>, FALSE, 0, t_outdoor_hourly,
                                 heat_pump_schedule, solar_radiation_hourly, 0)
    IN  IF day.exc # "" THEN day
        ELSE [day EXCEPT !.temps = <<t_indoor_initial>> \o day.temps]

simulate_day(sim, t_indoor_initial, t_outdoor_hourly, heat_pump_schedule, solar_radiation_hourly) ==
    simulate_day_loop(sim, <<t_indoor_initial>>, FALSE, 0, t_outdoor_hourly,
                      heat_pump_schedule, solar_radiation_hourly, 0)

\* ---------------------------------------------------- calculate_comfort_score
\* The score is kept in thousandths of a point.

\* Mutant of hours_outside_comfort: a temperature on a limit counts as outside.
hours_outside_comfort_open(indoor_temps, comfort_min, comfort_max) ==
    LET hours_too_cold == Cardinality({i \in 1..Len(indoor_temps) : indoor_temps[i] <= comfort_min})
        hours_too_hot == Cardinality({i \in 1..Len(indoor_temps) : indoor_temps[i] >= comfort_max})
    IN  hours_too_cold + hours_too_hot

\* Lines 248-250: a temperature on a limit of the band is inside it.
hours_outside_comfort(indoor_temps, comfort_min, comfort_max) ==
    LET hours_too_cold == Cardinality({i \in 1..Len(indoor_temps) : indoor_temps[i] < comfort_min})
        hours_too_hot == Cardinality({i \in 1..Len(indoor_temps) : indoor_temps[i] > comfort_max})
    IN  hours_too_cold + hours_too_hot

\* Lines 253-260: the list of violations.
comfort_violations(indoor_temps, comfort_min, comfort_max) ==
    [i \in 1..Len(indoor_temps) |->
        IF indoor_temps[i] < comfort_min THEN comfort_min - indoor_temps[i]
        ELSE IF indoor_temps[i] > comfort_max THEN indoor_temps[i] - comfort_max
        ELSE 0]

RECURSIVE SeqSum(_)
SeqSum(s) == IF s = <<>> THEN 0 ELSE Head(s) + SeqSum(Tail(s))

\* Line 273 and 274: avg_violation * 10, in thousandths of a point, rounded
\* down; 0 for an empty list.
average_penalty(violations) ==
    IF violations = <<>> THEN 0
    ELSE (AVERAGE_WEIGHT * SeqSum(violations)) \div Len(violations)

\* Mutant of clamp_score: the score is returned as computed.
clamp_score_skipped(score) == score

\* Line 276: max(0.0, min(100.0, score)).
clamp_score(score) ==
    IF score > SCORE_START THEN SCORE_START ELSE IF score < 0 THEN 0 ELSE score

\* Mutant of calculate_comfort_score: an hour outside the band adds points.
calculate_comfort_score_bonus(indoor_temps, comfort_min, comfort_max) ==
    LET hours_outside == hours_outside_comfort(indoor_temps, comfort_min, comfort_max)
        violations == comfort_violations(indoor_temps, comfort_min, comfort_max)
        severe_violations == Cardinality({i \in 1..Len(violations) : violations[i] > SEVERE_ABOVE})
        score == SCORE_START + hours_outside * OUTSIDE_PENALTY
                             - severe_violations * SEVERE_PENALTY
                             - average_penalty(violations)
    IN  [score |-> clamp_score(score), hours_outside |-> hours_outside]

calculate_comfort_score(indoor_temps, comfort_min, comfort_max) ==
    LET hours_outside == hours_outside_comfort(indoor_temps, comfort_min, comfort_max)
        violations == comfort_violations(indoor_temps, comfort_min, comfort_max)
        severe_violations == Cardinality({i \in 1..Len(violations) : violations[i] > SEVERE_ABOVE})
        score == SCORE_START - hours_outside * OUTSIDE_PENALTY
                             - severe_violations * SEVERE_PENALTY
                             - average_penalty(violations)
    IN  [score |-> clamp_score(score), hours_outside |-> hours_outside]

\* ------------------------------------------------- HeatPumpOptimizer
RECURSIVE SeqMin(_)
SeqMin(s) ==
    IF Len(s) = 1 THEN s[1]
    ELSE LET m == SeqMin(Tail(s)) IN IF s[1] < m THEN s[1] ELSE m

RECURSIVE SeqMax(_)
SeqMax(s) ==
    IF Len(s) = 1 THEN s[1]
    ELSE LET m == SeqMax(Tail(s)) IN IF s[1] > m THEN s[1] ELSE m

\* Mutant of normalize_prices: equal prices are normalized to 0, not 50.
normalize_prices_zero(electricity_prices, n_hours) ==
    LET price_min == SeqMin(electricity_prices)
        price_max == SeqMax(electricity_prices)
        price_range == price_max - price_min
    IN  IF price_range > 0
        THEN [i \in 1..Len(electricity_prices) |->
                 ((electricity_prices[i] - price_min) * 100000) \div price_range]
        ELSE [i \in 1..n_hours |-> 0]

\* Lines 146-155: prices rescaled to 0..100 (in 1/1000), or 50 for each of
\* the n_hours hours when all prices are equal.  The caller has checked that
\* prices is not empty.  Rounding down does not move a value across the whole
\* thresholds 30 and 70.
normalize_prices(electricity_prices, n_hours) ==
    LET price_min == SeqMin(electricity_prices)
        price_max == SeqMax(electricity_prices)
        price_range == price_max - price_min
    IN  IF price_range > 0
        THEN [i \in 1..Len(electricity_prices) |->
                 ((electricity_prices[i] - price_min) * 100000) \div price_range]
        ELSE [i \in 1..n_hours |-> UNIFORM_NORMALIZED]

\* Mutant of classify_price: the boundaries 30 and 70 fall to the lower class.
classify_price_closed(price) ==
    IF price <= CHEAP_BELOW THEN "cheap"
    ELSE IF price <= MODERATE_BELOW THEN "moderate"
    ELSE "expensive"

\* Lines 160-165.
classify_price(price) ==
    IF price < CHEAP_BELOW THEN "cheap"
    ELSE IF price < MODERATE_BELOW THEN "moderate"
    ELSE "expensive"

\* Mutant of phase1_schedule: Phase 1 leaves every hour NORMAL.
phase1_schedule_all_normal(price_categories, n_hours) ==
    [exc |-> "", schedule |-> [i \in 1..n_hours |-> "NORMAL"]]

\* Lines 167-173: all NORMAL, then BOOST on every cheap hour.  A cheap entry
\* past the end of the schedule is an IndexError (more prices than outdoor
\* temperatures).
phase1_schedule(price_categories, n_hours) ==
    IF \E i \in 1..Len(price_categories) : price_categories[i] = "cheap" /\ i > n_hours
    THEN [exc |-> "IndexError", schedule |-> <<>>]
    ELSE [exc |-> "",
          schedule |-> [i \in 1..n_hours |->
                           IF i <= Len(price_categories) /\ price_categories[i] = "cheap"
                           THEN "BOOST" ELSE "NORMAL"]]

\* Mutant of select_mode: an expensive hour with a wide buffer is switched off.
select_mode_off(category, t_current, comfort_min_temp, scheduled) ==
    IF category = "expensive"
    THEN IF t_current > comfort_min_temp + 2 * ECO_MARGIN THEN "OFF"
         ELSE IF t_current > comfort_min_temp + ECO_MARGIN THEN "ECO"
         ELSE IF t_current > comfort_min_temp + NORMAL_MARGIN THEN "NORMAL"
         ELSE "BOOST"
    ELSE scheduled

\* Mutant of select_mode: the two thresholds are compared with >=.
select_mode_inclusive(category, t_current, comfort_min_temp, scheduled) ==
    IF category = "expensive"
    THEN IF t_current >= comfort_min_temp + ECO_MARGIN THEN "ECO"
         ELSE IF t_current >= comfort_min_temp + NORMAL_MARGIN THEN "NORMAL"
         ELSE "BOOST"
    ELSE scheduled

\* Lines 183-192: the mode of an hour before it is simulated; scheduled is the
\* Phase 1 value.
select_mode(category, t_current, comfort_min_temp, scheduled) ==
    IF category = "expensive"
    THEN IF t_current > comfort_min_temp + ECO_MARGIN THEN "ECO"
         ELSE IF t_current > comfort_min_temp + NORMAL_MARGIN THEN "NORMAL"
         ELSE "BOOST"
    ELSE scheduled

\* Line 209: the safety check on the simulated temperature.
too_cold(t_new, comfort_min_temp) == t_new < comfort_min_temp

\* Mutant of boost_resimulate: the re-simulation runs at the NORMAL fraction.
boost_resimulate_normal(sim, t_current, t_outdoor, solar_radiation, np) ==
    simulate_hour(sim, t_current, t_outdoor, TRUE, 7, solar_radiation, np)

\* Lines 212-218: the re-simulation with BOOST.
boost_resimulate(sim, t_current, t_outdoor, solar_radiation, np) ==
    simulate_hour(sim, t_current, t_outdoor, TRUE, 10, solar_radiation, np)

\* Mutant of replace_last: the correction also rewrites the entry before the
\* last one, the temperature recorded for the previous hour.
replace_last_and_previous(indoor_temps, t_new) ==
    [i \in 1..Len(indoor_temps) |->
        IF i >= Len(indoor_temps) - 1 /\ i > 1 THEN t_new ELSE indoor_temps[i]]

\* Mutant of replace_last: the pre-correction temperature stays recorded.
replace_last_skipped(indoor_temps, t_new) == indoor_temps

\* Line 219: indoor_temps[-1] = t_new.
replace_last(indoor_temps, t_new) ==
    [indoor_temps EXCEPT ![Len(indoor_temps)] = t_new]

\* _calculate_cost: the loop of lines 234-243 from `hour` on (0-based).
RECURSIVE calculate_cost_loop(_, _, _, _, _, _, _)
calculate_cost_loop(schedule, prices, sim, outdoor_temps, indoor_temps, hour, total_cost) ==
    IF hour = Len(schedule)
    THEN [exc |-> "", value |-> total_cost]
    ELSE IF hour >= Len(outdoor_temps) \/ hour >= Len(indoor_temps) \/ hour >= Len(prices)
         THEN [exc |-> "IndexError", value |-> 0]
         ELSE LET energy == estimate_power_consumption(sim, outdoor_temps[hour + 1],
                                                       indoor_temps[hour + 1],
                                                       schedule[hour + 1])
                  cost == energy * prices[hour + 1]
              IN  calculate_cost_loop(schedule, prices, sim, outdoor_temps, indoor_temps,
                                      hour + 1, total_cost + cost)

calculate_cost(schedule, prices, sim, outdoor_temps, indoor_temps) ==
    calculate_cost_loop(schedule, prices, sim, outdoor_temps, indoor_temps, 0, 0)

\* Mutant of but_last: the final temperature is kept.
but_last_kept(s) == s

\* indoor_temps[:-1]
but_last(s) == SubSeq(s, 1, Len(s) - 1)

\* Mutant of calculate_baseline_cost: the baseline is priced as BOOST.
calculate_baseline_cost_boost(sim, in) ==
    LET baseline_schedule == [i \in 1..Len(in.outdoor_temps) |-> "BOOST"]
        day == simulate_day(sim, in.current_indoor_temp, in.outdoor_temps,
                            [i \in 1..DAY_HOURS |-> TRUE], in.solar_radiation)
    IN  IF day.exc # ""
        THEN [exc |-> day.exc, value |-> 0, calls |-> day.calls]
        ELSE LET c == calculate_cost(baseline_schedule, in.electricity_prices, sim,
                                     in.outdoor_temps, day.temps)
             IN  [exc |-> c.exc, value |-> c.value, calls |-> day.calls]

\* _calculate_baseline_cost: [True] * 24 as the on/off schedule of simulate_day,
\* then the cost of NORMAL in each of the len(outdoor_temps) hours.
calculate_baseline_cost(sim, in) ==
    LET baseline_schedule == [i \in 1..Len(in.outdoor_temps) |-> "NORMAL"]
        day == simulate_day(sim, in.current_indoor_temp, in.outdoor_temps,
                            [i \in 1..DAY_HOURS |-> TRUE], in.solar_radiation)
    IN  IF day.exc # ""
        THEN [exc |-> day.exc, value |-> 0, calls |-> day.calls]
        ELSE LET c == calculate_cost(baseline_schedule, in.electricity_prices, sim,
                                     in.outdoor_temps, day.temps)
             IN  [exc |-> c.exc, value |-> c.value, calls |-> day.calls]

\* round(x, 1) of a temperature: to the nearest 100, a tie to the even side
\* (the float decides a tie by its binary expansion).
round1(t) ==
    LET q == t \div 100
        r == t % 100
    IN  IF r < 50 THEN q * 100
        ELSE IF r > 50 THEN (q + 1) * 100
        ELSE IF q % 2 = 0 THEN q * 100 ELSE (q + 1) * 100

\* Lines 288-300: the kind of explanation attached to an entry.
reason_of(mode, price) ==
    IF mode = "BOOST" THEN (IF price < 40 THEN "pre-heating" ELSE "preventing drop")
    ELSE IF mode = "ECO" THEN "coasting"
    ELSE IF mode = "OFF" THEN "mild weather"
    ELSE "standard"

\* _create_detailed_schedule; timestamp is the offset in hours from start_time.
create_detailed_schedule(modes, indoor_temps, outdoor_temps, prices) ==
    [i \in 1..Len(modes) |->
        [hour |-> i - 1,
         timestamp |-> i - 1,
         mode |-> modes[i],
         expected_indoor_temp |-> round1(indoor_temps[i]),
         outdoor_temp |-> round1(outdoor_temps[i]),
         electricity_price |-> prices[i],
         reason |-> reason_of(modes[i], prices[i])]]

\* ------------------------------------------------------------ the inputs
Cold == [t |-> -20000, s |-> 0]
Warm == [t |-> 21000, s |-> 400]

\* A forecast longer than its pattern repeats it.
Extend(pattern, n) == [i \in 1..n |-> pattern[((i - 1) % Len(pattern)) + 1]]

WeatherPatterns == {<<Cold>>, <<Warm>>, <<Cold, Warm>>, <<Warm, Cold>>}
PriceValues == {0, 30, 70, 100}
PricePatterns == {<<0, 30, 70, 100>>, <<100, 70, 30, 0>>, <<70, 0, 100, 30>>, <<30>>}

\* Devices: a well-served house, a large leaky house with a weak pump, and two
\* registrations with a non-positive field.
House == [floor_area |-> 100, volume |-> 250, insulation_level |-> "medium"]
Barn == [floor_area |-> 200, volume |-> 500, insulation_level |-> "low"]
NoVolume == [floor_area |-> 100, volume |-> 0, insulation_level |-> "high"]
Devices ==
    {[building |-> House, heat_pump |-> [type |-> "ASHP", rated_power |-> 6, rated_cop |-> 3500]],
     [building |-> Barn, heat_pump |-> [type |-> "GSHP", rated_power |-> 1, rated_cop |-> 3500]],
     [building |-> NoVolume, heat_pump |-> [type |-> "ASHP", rated_power |-> 6, rated_cop |-> 3500]],
     [building |-> House, heat_pump |-> [type |-> "ASHP", rated_power |-> 0, rated_cop |-> 3500]]}
SoundDevices == {d \in Devices : d.building.volume > 0 /\ d.heat_pump.rated_power > 0}

ComfortBands == {[min |-> 18000, max |-> 24000]}
StartOffsets == {500, 2000, 3000}

\* Lengths of (outdoor_temps, electricity_prices, solar_radiation) that are
\* not one short horizon.
DayLengths == {<<DAY_HOURS, DAY_HOURS, DAY_HOURS>>}
OtherLengths ==
    {<<0, 0, 0>>, <<0, 2, 0>>, <<2, 1, 2>>, <<2, 3, 2>>, <<2, 2, 1>>,
     <<DAY_HOURS, DAY_HOURS, DAY_HOURS + 1>>,
     <<DAY_HOURS, DAY_HOURS + 1, DAY_HOURS>>,
     <<DAY_HOURS + 1, DAY_HOURS + 1, DAY_HOURS + 1>>}

\* OptimizationInput (start_time is the origin of the timestamps).
OptimizationInput(device, band, offset, outdoor, prices, solar) ==
    [building |-> device.building,
     heat_pump |-> device.heat_pump,
     current_indoor_temp |-> band.min + offset,
     outdoor_temps |-> outdoor,
     electricity_prices |-> prices,
     solar_radiation |-> solar,
     comfort_min_temp |-> band.min,
     comfort_max_temp |-> band.max]

Outdoor(weather, n) == [i \in 1..n |-> weather[((i - 1) % Len(weather)) + 1].t]
Solar(weather, n) == [i \in 1..n |-> weather[((i - 1) % Len(weather)) + 1].s]

\* Every price vector of every short horizon 1..MaxH; the 24-hour day on the
\* price patterns; the other lengths on the sound devices from the comfort
\* midpoint.
Inputs ==
    {OptimizationInput(d, b, o, Outdoor(w, Len(p)), p, Solar(w, Len(p))) :
        d \in Devices, b \in ComfortBands, o \in StartOffsets, w \in WeatherPatterns,
        p \in UNION {[1..h -> PriceValues] : h \in 1..MaxH}}
    \cup
    {OptimizationInput(d, b, o, Outdoor(w, l[1]), Extend(p, l[2]), Solar(w, l[3])) :
        d \in Devices, b \in ComfortBands, o \in StartOffsets, w \in WeatherPatterns,
        p \in PricePatterns, l \in DayLengths}
    \cup
    {OptimizationInput(d, b, 3000, Outdoor(w, l[1]), Extend(p, l[2]), Solar(w, l[3])) :
        d \in SoundDevices, b \in ComfortBands, w \in WeatherPatterns,
        p \in PricePatterns, l \in OtherLengths}

\* -------------------------------------------------------------- the state
VARIABLES
    inputs,             \* the OptimizationInput of the call
    pc,                 \* where optimize() stands
    error,              \* the exception optimize() raised, "" if none
    simulator,          \* the ThermalSimulator of the call
    price_categories,   \* _greedy_optimize's locals
    schedule,
    indoor_temps,
    temp_np,            \* whether indoor_temps[-1] is a numpy scalar
    hour,               \* the next hour of the greedy loop
    trace,              \* what each finished iteration of the loop did
    sim_calls,          \* the number of simulate_hour calls made so far
    total_cost,
    baseline_cost,
    result,             \* the dict optimize() returned
    optimizer,          \* the attributes of the HeatPumpOptimizer singleton
    history,            \* the optimize() calls the singleton has completed
    request,            \* the daily-plan request being served and what the
                        \* forecast services answer to it
    fingrid             \* the locals of FingridAPI._request_with_retries

vars == <<inputs, pc, error, simulator, price_categories, schedule, indoor_temps,
          temp_np, hour, trace, sim_calls, total_cost, baseline_cost, result,
          optimizer, history, request, fingrid>>

NoResult == [schedule |-> <<>>, total_cost |-> 0, baseline_cost |-> 0,
             savings |-> 0, indoor_temps |-> <<>>]
\* No daily-plan request is being served; no Fingrid request is under way.
NoRequest == [status |-> 0]
NoFingrid == [attempt |-> 0, requests |-> 0, sleeps |-> 0, resp |-> "", log |-> <<>>]

\* HeatPumpOptimizer.__init__: penalty_per_degree = 100.0, cycling_penalty = 5.0.
HeatPumpOptimizer == [penalty_per_degree |-> PENALTY_PER_DEGREE,
                      cycling_penalty |-> CYCLING_PENALTY]
NoSimulator == ThermalSimulator(House, [type |-> "ASHP", rated_power |-> 0, rated_cop |-> 0])

Init ==
    /\ inputs \in Inputs
    /\ pc = "optimize"
    /\ error = ""
    /\ simulator = NoSimulator
    /\ price_categories = <<>>
    /\ schedule = <<>>
    /\ indoor_temps = <<>>
    /\ temp_np = FALSE
    /\ hour = 0
    /\ trace = <<>>
    /\ sim_calls = 0
    /\ total_cost = 0
    /\ baseline_cost = 0
    /\ result = NoResult
    /\ optimizer = HeatPumpOptimizer
    /\ history = <<>>
    /\ request = NoRequest
    /\ fingrid = NoFingrid

\* optimize() raises e: nothing is returned.
Fail(e) ==
    /\ pc' = "raised"
    /\ error' = e

\* Mutant of GreedySetup: the optimizer counts its calls in cycling_penalty and
\* starts the trajectory of a later call that much warmer.
GreedySetupRemembering ==
    /\ pc = "optimize"
    /\ simulator' = ThermalSimulator(inputs.building, inputs.heat_pump)
    /\ optimizer' = [optimizer EXCEPT !.cycling_penalty = @ + 1]
    /\ LET n_hours == Len(inputs.outdoor_temps)
       IN  IF Len(inputs.electricity_prices) = 0
           THEN /\ Fail("ValueError")
                /\ UNCHANGED <<price_categories, schedule, indoor_temps, temp_np>>
           ELSE LET normalized_prices == normalize_prices(inputs.electricity_prices, n_hours)
                    categories == [i \in 1..Len(normalized_prices) |->
                                      classify_price(normalized_prices[i])]
                    p1 == phase1_schedule(categories, n_hours)
                IN  IF p1.exc # ""
                    THEN /\ Fail(p1.exc)
                         /\ UNCHANGED <<price_categories, schedule, indoor_temps, temp_np>>
                    ELSE /\ price_categories' = categories
                         /\ schedule' = p1.schedule
                         /\ indoor_temps' = <<inputs.current_indoor_temp
                                                + 100 * (optimizer.cycling_penalty - CYCLING_PENALTY)>>
                         /\ temp_np' = FALSE
                         /\ pc' = IF n_hours = 0 THEN "calculate_cost" ELSE "greedy_loop"
                         /\ error' = ""
    /\ UNCHANGED <<inputs, hour, trace, sim_calls, total_cost, baseline_cost, result, history,
                   request, fingrid>>

\* optimize() up to the greedy loop: the simulator (line 87), price
\* normalization and classification, Phase 1 (lines 143-177).
GreedySetup ==
    /\ pc = "optimize"
    /\ simulator' = ThermalSimulator(inputs.building, inputs.heat_pump)
    /\ LET n_hours == Len(inputs.outdoor_temps)
       IN  IF Len(inputs.electricity_prices) = 0
           THEN /\ Fail("ValueError")
                /\ UNCHANGED <<price_categories, schedule, indoor_temps, temp_np>>
           ELSE LET normalized_prices == normalize_prices(inputs.electricity_prices, n_hours)
                    categories == [i \in 1..Len(normalized_prices) |->
                                      classify_price(normalized_prices[i])]
                    p1 == phase1_schedule(categories, n_hours)
                IN  IF p1.exc # ""
                    THEN /\ Fail(p1.exc)
                         /\ UNCHANGED <<price_categories, schedule, indoor_temps, temp_np>>
                    ELSE /\ price_categories' = categories
                         /\ schedule' = p1.schedule
                         /\ indoor_temps' = <<inputs.current_indoor_temp>>
                         /\ temp_np' = FALSE
                         /\ pc' = IF n_hours = 0 THEN "calculate_cost" ELSE "greedy_loop"
                         /\ error' = ""
    /\ UNCHANGED <<inputs, hour, trace, sim_calls, total_cost, baseline_cost, result,
                   optimizer, history, request, fingrid>>

\* One iteration of the loop of lines 179-219.
GreedyHour ==
    /\ pc = "greedy_loop"
    /\ hour < Len(inputs.outdoor_temps)
    /\ LET h == hour + 1
           t_current == indoor_temps[Len(indoor_temps)]
       IN  IF h > Len(price_categories) \/ h > Len(inputs.solar_radiation)
           THEN /\ Fail("IndexError")
                /\ UNCHANGED <<schedule, indoor_temps, temp_np, hour, trace, sim_calls>>
           ELSE LET chosen == select_mode(price_categories[h], t_current,
                                          inputs.comfort_min_temp, schedule[h])
                    heat_pump_on == chosen # "OFF"
                    first == simulate_hour(simulator, t_current, inputs.outdoor_temps[h],
                                           heat_pump_on, power_fractions(chosen),
                                           inputs.solar_radiation[h], temp_np)
                    corrected == first.exc = "" /\ too_cold(first.value, inputs.comfort_min_temp)
                    second == boost_resimulate(simulator, t_current, inputs.outdoor_temps[h],
                                               inputs.solar_radiation[h], temp_np)
                    final == IF corrected THEN second ELSE first
                    mode == IF corrected THEN "BOOST" ELSE chosen
                    calls == IF corrected THEN 2 ELSE 1
                IN  IF final.exc # ""
                    THEN /\ Fail(final.exc)
                         /\ sim_calls' = sim_calls + calls
                         /\ UNCHANGED <<schedule, indoor_temps, temp_np, hour, trace>>
                    ELSE /\ schedule' = [schedule EXCEPT ![h] = mode]
                         /\ indoor_temps' =
                               IF corrected
                               THEN replace_last(Append(indoor_temps, first.value), second.value)
                               ELSE Append(indoor_temps, first.value)
                         /\ temp_np' = final.np
                         /\ hour' = hour + 1
                         /\ sim_calls' = sim_calls + calls
                         /\ trace' = Append(trace,
                               [hour |-> hour,
                                t_current |-> t_current,
                                category |-> price_categories[h],
                                phase1 |-> schedule[h],
                                chosen |-> chosen,
                                np |-> temp_np,
                                t_first |-> first.value,
                                corrected |-> corrected,
                                t_new |-> final.value])
                         /\ pc' = IF hour + 1 = Len(inputs.outdoor_temps)
                                  THEN "calculate_cost" ELSE "greedy_loop"
                         /\ error' = ""
    /\ UNCHANGED <<inputs, simulator, price_categories, total_cost, baseline_cost, result,
                   optimizer, history, request, fingrid>>

\* Lines 95-101: the cost of the schedule.
CalculateCost ==
    /\ pc = "calculate_cost"
    /\ LET c == calculate_cost(schedule, inputs.electricity_prices, simulator,
                               inputs.outdoor_temps, but_last(indoor_temps))
       IN  IF c.exc # ""
           THEN Fail(c.exc) /\ UNCHANGED total_cost
           ELSE /\ total_cost' = c.value
                /\ pc' = "baseline_cost"
                /\ error' = ""
    /\ UNCHANGED <<inputs, simulator, price_categories, schedule, indoor_temps, temp_np,
                   hour, trace, sim_calls, baseline_cost, result, optimizer, history, request, fingrid>>

\* Lines 104-106: the cost of the always-NORMAL baseline.
CalculateBaselineCost ==
    /\ pc = "baseline_cost"
    /\ LET c == calculate_baseline_cost(simulator, inputs)
       IN  /\ sim_calls' = sim_calls + c.calls
           /\ IF c.exc # ""
              THEN Fail(c.exc) /\ UNCHANGED baseline_cost
              ELSE /\ baseline_cost' = c.value
                   /\ pc' = "create_result"
                   /\ error' = ""
    /\ UNCHANGED <<inputs, simulator, price_categories, schedule, indoor_temps, temp_np,
                   hour, trace, total_cost, result, optimizer, history, request, fingrid>>

\* Lines 109-129: the detailed schedule and the returned dict.
CreateResult ==
    /\ pc = "create_result"
    /\ result' = [schedule |-> create_detailed_schedule(schedule, indoor_temps,
                                   inputs.outdoor_temps, inputs.electricity_prices),
                  total_cost |-> total_cost,
                  baseline_cost |-> baseline_cost,
                  savings |-> baseline_cost - total_cost,
                  indoor_temps |-> but_last(indoor_temps)]
    /\ pc' = "done"
    /\ UNCHANGED <<inputs, error, simulator, price_categories, schedule, indoor_temps,
                   temp_np, hour, trace, sim_calls, total_cost, baseline_cost,
                   optimizer, history, request, fingrid>>

Next ==
    \/ GreedySetup
    \/ GreedyHour
    \/ CalculateCost
    \/ CalculateBaselineCost
    \/ CreateResult

Spec == Init /\ [][Next]_vars

\* ------------------------------------------------- sessions
\* Several optimize() calls, one after the other, on the module-level
\* singleton `optimizer`, as get_daily_plan makes them (main.py line 238).
SessionPrices == {<<0, 30, 70, 100>>, <<30>>}
SessionInputs ==
    {OptimizationInput(d, b, 3000, Outdoor(<<Cold>>, n), Extend(p, n), Solar(<<Cold>>, n)) :
        d \in SoundDevices, b \in ComfortBands, p \in SessionPrices, n \in {DAY_HOURS}}
    \cup
    {OptimizationInput(d, b, 3000, Outdoor(<<Cold>>, 1), <<30>>, Solar(<<Cold>>, 1)) :
        d \in SoundDevices, b \in ComfortBands}

SessionInit ==
    /\ inputs \in SessionInputs
    /\ pc = "optimize"
    /\ error = ""
    /\ simulator = NoSimulator
    /\ price_categories = <<>>
    /\ schedule = <<>>
    /\ indoor_temps = <<>>
    /\ temp_np = FALSE
    /\ hour = 0
    /\ trace = <<>>
    /\ sim_calls = 0
    /\ total_cost = 0
    /\ baseline_cost = 0
    /\ result = NoResult
    /\ optimizer = HeatPumpOptimizer
    /\ history = <<>>
    /\ request = NoRequest
    /\ fingrid = NoFingrid

\* What the finished call gave back to its caller.
Outcome == [inputs |-> inputs, error |-> error, result |-> result]

\* The call has returned or raised; the next request calls optimize() on the
\* same optimizer object with an OptimizationInput of its own.
NextCall ==
    /\ pc \in {"done", "raised"}
    /\ Len(history) + 1 < MaxCalls
    /\ history' = Append(history, Outcome)
    /\ inputs' \in SessionInputs
    /\ pc' = "optimize"
    /\ error' = ""
    /\ simulator' = NoSimulator
    /\ price_categories' = <<>>
    /\ schedule' = <<>>
    /\ indoor_temps' = <<>>
    /\ temp_np' = FALSE
    /\ hour' = 0
    /\ trace' = <<>>
    /\ sim_calls' = 0
    /\ total_cost' = 0
    /\ baseline_cost' = 0
    /\ result' = NoResult
    /\ UNCHANGED <<optimizer, request, fingrid>>

SessionNext ==
    \/ GreedySetup
    \/ GreedyHour
    \/ CalculateCost
    \/ CalculateBaselineCost
    \/ CreateResult
    \/ NextCall

SessionSpec == SessionInit /\ [][SessionNext]_vars

\* ------------------------------------------------- single calls
\* The functions of thermal_model.py and the simulation step of the greedy
\* loop, each called once on arguments drawn from small sets.  `inputs` holds
\* the arguments of the call, `simulator` the object it is made on, `result`
\* what it returned; the locals of optimize() keep their initial values.
IndoorValues == {18500, 21000}
OutdoorValues == {-20000, -5000, 5000, 21000}
SolarValues == {0, 400}
OnFractions == {3, 7, 10}
SchedulePatterns == {<<TRUE>>, <<FALSE>>, <<TRUE, FALSE>>, <<FALSE, TRUE>>}
DayCallLengths == (1..MaxH) \cup {DAY_HOURS, DAY_HOURS + 1}
TrajectoryValues == {5000, 15500, 17000, 18000, 21000, 24000, 25000, 27000}
ScoreBands == {[min |-> 18000, max |-> 24000], [min |-> 20000, max |-> 21000]}

\* The temperatures of the trajectories a scored one is compared with.
PeerValues == {18000, 21000, 25000, 27000}

HourCalls ==
    {[fn |-> "simulate_hour", building |-> d.building, heat_pump |-> d.heat_pump,
      t_indoor_current |-> ti, t_outdoor |-> to, heat_pump_on |-> on,
      heat_pump_power_fraction |-> f, solar_radiation |-> s, np |-> np] :
        d \in Devices, ti \in IndoorValues, to \in OutdoorValues, on \in BOOLEAN,
        f \in OnFractions, s \in SolarValues, np \in BOOLEAN}

GreedyCalls ==
    {[fn |-> "greedy_simulate", building |-> d.building, heat_pump |-> d.heat_pump,
      mode |-> m, t_current |-> ti, t_outdoor |-> to, solar_radiation |-> s, np |-> np] :
        d \in Devices, m \in Modes, ti \in IndoorValues, to \in OutdoorValues,
        s \in SolarValues, np \in BOOLEAN}

PowerCalls ==
    {[fn |-> "estimate_power_consumption", building |-> d.building,
      heat_pump |-> d.heat_pump, t_outdoor |-> to, t_indoor |-> ti, mode |-> m] :
        d \in Devices, m \in Modes, ti \in IndoorValues, to \in OutdoorValues}

DayCalls ==
    {[fn |-> "simulate_day", building |-> d.building, heat_pump |-> d.heat_pump,
      t_indoor_initial |-> ti, t_outdoor_hourly |-> Outdoor(w, n),
      heat_pump_schedule |-> Extend(on, n), solar_radiation_hourly |-> Solar(w, n)] :
        d \in Devices, ti \in IndoorValues, w \in WeatherPatterns,
        on \in SchedulePatterns, n \in DayCallLengths}

ScoreCalls ==
    {[fn |-> "calculate_comfort_score", indoor_temps |-> t,
      comfort_min |-> b.min, comfort_max |-> b.max] :
        t \in UNION {[1..n -> TrajectoryValues] : n \in 0..MaxH}, b \in ScoreBands}

Calls == HourCalls \cup GreedyCalls \cup PowerCalls \cup DayCalls \cup ScoreCalls

CallInit ==
    /\ inputs \in Calls
    /\ pc = "call"
    /\ error = ""
    /\ simulator = IF inputs.fn = "calculate_comfort_score" THEN NoSimulator
                   ELSE ThermalSimulator(inputs.building, inputs.heat_pump)
    /\ price_categories = <<>>
    /\ schedule = <<>>
    /\ indoor_temps = <<>>
    /\ temp_np = FALSE
    /\ hour = 0
    /\ trace = <<>>
    /\ sim_calls = 0
    /\ total_cost = 0
    /\ baseline_cost = 0
    /\ result = NoResult
    /\ optimizer = HeatPumpOptimizer
    /\ history = <<>>
    /\ request = NoRequest
    /\ fingrid = NoFingrid

\* The call returns r, or raises exc.
Finish(exc, r) ==
    /\ pc' = IF exc = "" THEN "returned" ELSE "raised"
    /\ error' = exc
    /\ result' = IF exc = "" THEN r ELSE result
    /\ UNCHANGED <<inputs, simulator, price_categories, schedule, indoor_temps, temp_np,
                   hour, trace, total_cost, baseline_cost, optimizer, history, request, fingrid>>

SimulateHour ==
    /\ pc = "call"
    /\ inputs.fn = "simulate_hour"
    /\ LET t_new == simulate_hour(simulator, inputs.t_indoor_current, inputs.t_outdoor,
                                  inputs.heat_pump_on, inputs.heat_pump_power_fraction,
                                  inputs.solar_radiation, inputs.np)
       IN  Finish(t_new.exc, [t_new |-> t_new.value])
    /\ sim_calls' = sim_calls + 1

\* optimization.py lines 194-204: the simulation of an hour in a given mode.
GreedySimulate ==
    /\ pc = "call"
    /\ inputs.fn = "greedy_simulate"
    /\ LET heat_pump_on == inputs.mode # "OFF"
           fraction == power_fractions(inputs.mode)
           q_heat_pump == heat_pump_input(simulator, inputs.t_current, inputs.t_outdoor,
                                          heat_pump_on, fraction, inputs.np)
           t_new == simulate_hour(simulator, inputs.t_current, inputs.t_outdoor,
                                  heat_pump_on, fraction, inputs.solar_radiation, inputs.np)
       IN  Finish(t_new.exc, [heat_pump_on |-> heat_pump_on, fraction |-> fraction,
                              q_heat_pump |-> q_heat_pump.value, t_new |-> t_new.value])
    /\ sim_calls' = sim_calls + 1

EstimatePower ==
    /\ pc = "call"
    /\ inputs.fn = "estimate_power_consumption"
    /\ Finish("", [energy |-> estimate_power_consumption(simulator, inputs.t_outdoor,
                                                         inputs.t_indoor, inputs.mode)])
    /\ UNCHANGED sim_calls

SimulateDay ==
    /\ pc = "call"
    /\ inputs.fn = "simulate_day"
    /\ LET day == simulate_day(simulator, inputs.t_indoor_initial, inputs.t_outdoor_hourly,
                               inputs.heat_pump_schedule, inputs.solar_radiation_hourly)
       IN  /\ Finish(day.exc, [temps |-> day.temps])
           /\ sim_calls' = sim_calls + day.calls

\* Mutant of ComfortScore: the temperatures are clipped into the band in the
\* caller's list before they are scored.
ComfortScoreClipping ==
    /\ pc = "call"
    /\ inputs.fn = "calculate_comfort_score"
    /\ inputs' = [inputs EXCEPT !.indoor_temps =
                     [i \in 1..Len(inputs.indoor_temps) |->
                         clip(inputs.indoor_temps[i], inputs.comfort_min, inputs.comfort_max)]]
    /\ pc' = "returned"
    /\ error' = ""
    /\ result' = calculate_comfort_score(inputs'.indoor_temps, inputs.comfort_min,
                                         inputs.comfort_max)
    /\ UNCHANGED <<simulator, price_categories, schedule, indoor_temps, temp_np, hour, trace,
                   sim_calls, total_cost, baseline_cost, optimizer, history, request, fingrid>>

ComfortScore ==
    /\ pc = "call"
    /\ inputs.fn = "calculate_comfort_score"
    /\ Finish("", calculate_comfort_score(inputs.indoor_temps, inputs.comfort_min,
                                          inputs.comfort_max))
    /\ UNCHANGED sim_calls

CallNext ==
    \/ SimulateHour
    \/ GreedySimulate
    \/ EstimatePower
    \/ SimulateDay
    \/ ComfortScore

CallSpec == CallInit /\ [][CallNext]_vars

\* ------------------------------------------------- the whole program
\* Either entry: an optimize() call or a single call of thermal_model.py.
ProgramInit == Init \/ CallInit

ProgramNext == Next \/ CallNext

ProgramSpec == ProgramInit /\ [][ProgramNext]_vars

\* ------------------------------------------------- get_daily_plan (main.py)
\* The horizon get_daily_plan asks both clients for.
PLAN_HOURS == 24
\* The candidate paths get_day_ahead_prices tries in turn.
CANDIDATE_PATHS == 5

\* Python's s[:n].
take(s, n) == SubSeq(s, 1, IF Len(s) < n THEN Len(s) ELSE n)

\* _get_dummy_forecast: the winter day by hour of day (0..23), in milli-degC
\* and W/m2 (rounded to the unit).
DummyTemperature ==
    <<-9665, -9915, -10000, -9915, -9665, -9268, -8750, -8147, -7500, -6853, -6250, -5732,
      -5335, -5085, -5000, -5085, -5335, -5732, -6250, -6853, -7500, -8147, -8750, -9268>>
DummySolar ==
    <<0, 0, 0, 0, 0, 0, 0, 0, 0, 0, 65, 117, 146, 146, 117, 65, 0, 0, 0, 0, 0, 0, 0, 0>>
get_dummy_forecast(hours, now_hour) ==
    [temperature |-> [h \in 1..hours |-> DummyTemperature[((now_hour + h - 1) % 24) + 1]],
     solar_radiation |-> [h \in 1..hours |-> DummySolar[((now_hour + h - 1) % 24) + 1]]]

\* get_forecast: the first `hours` values of each array of the answer, each
\* array cut on its own; any failure gives the dummy forecast.
get_forecast(response, hours, now_hour) ==
    IF ~response.ok
    THEN get_dummy_forecast(hours, now_hour)
    ELSE [temperature |-> take(response.temperature, hours),
          solar_radiation |-> take(response.solar_radiation, hours)]

\* _get_dummy_prices: the synthetic curve (EUR/MWh, rounded) plus noise.
DummyPrices ==
    <<42, 40, 40, 41, 44, 47, 52, 57, 62, 67, 72, 75,
      78, 80, 80, 79, 76, 73, 68, 63, 58, 53, 48, 45>>
get_dummy_prices(hours, noise) ==
    [h \in 1..hours |-> DummyPrices[((h - 1) % 24) + 1] + noise[((h - 1) % Len(noise)) + 1]]

\* One candidate path's answer, parsed: the prices it yields, or <<>> when it
\* is skipped (request error, non-200, bad JSON, or prices and timestamps of
\* different lengths).
parsed_prices(answer, hours) ==
    IF ~answer.ok
    THEN <<>>
    ELSE LET prices == take(answer.prices, hours)
             timestamps == IF answer.timestamps < hours THEN answer.timestamps ELSE hours
         IN  IF prices # <<>> /\ timestamps > 0 /\ Len(prices) = timestamps THEN prices
             ELSE IF prices # <<>> /\ timestamps = 0 THEN prices
             ELSE <<>>

\* get_day_ahead_prices: the first path that yields prices wins; when none
\* does, the dummy prices.
RECURSIVE try_paths(_, _, _)
try_paths(answers, path, hours) ==
    IF path > Len(answers)
    THEN <<>>
    ELSE IF parsed_prices(answers[path], hours) # <<>>
         THEN parsed_prices(answers[path], hours)
         ELSE try_paths(answers, path + 1, hours)

get_day_ahead_prices(answers, hours, noise) ==
    IF try_paths(answers, 1, hours) # <<>>
    THEN try_paths(answers, 1, hours)
    ELSE get_dummy_prices(hours, noise)

\* What the upstream services answer.
ForecastLengths == {0, 12, 24, 48}
WeatherAnswers ==
    {[ok |-> FALSE, temperature |-> <<>>, solar_radiation |-> <<>>]} \cup
    {[ok |-> TRUE, temperature |-> Outdoor(<<Cold>>, n), solar_radiation |-> Solar(<<Cold>>, m)] :
        n \in ForecastLengths, m \in ForecastLengths}
NoAnswer == [ok |-> FALSE, timestamps |-> 0, prices |-> <<>>]
PriceAnswer(n_timestamps, n_prices) ==
    [ok |-> TRUE, timestamps |-> n_timestamps, prices |-> Extend(<<0, 30, 70, 100>>, n_prices)]
PriceAnswers ==
    {NoAnswer} \cup
    {PriceAnswer(n, m) : n \in {0, 12, 24}, m \in {12, 24, 48}}
\* The answers of the candidate paths: some paths fail, the next one answers,
\* and the paths after it are never asked.
PathAnswers ==
    {[p \in 1..CANDIDATE_PATHS |-> IF p <= failing THEN NoAnswer ELSE a] :
        failing \in {0, 2, CANDIDATE_PATHS}, a \in PriceAnswers}
NowHours == {0, 12}
Noises == {<<0>>, <<-3, 0, 3>>}

\* A registered device (DeviceRegistration keeps the band inside 15..20 and
\* 20..26) and the upstream answers of one request.
Requests ==
    {[status |-> 0, device |-> d, band |-> b, weather |-> w, prices |-> p,
      now_hour |-> n, noise |-> z] :
        d \in SoundDevices, b \in ComfortBands, w \in WeatherAnswers, p \in PathAnswers,
        n \in NowHours, z \in Noises}

NoInput == [building |-> House, outdoor_temps |-> <<>>, electricity_prices |-> <<>>,
            solar_radiation |-> <<>>]

PlanInit ==
    /\ request \in Requests
    /\ inputs = NoInput
    /\ pc = "get_daily_plan"
    /\ error = ""
    /\ simulator = NoSimulator
    /\ price_categories = <<>>
    /\ schedule = <<>>
    /\ indoor_temps = <<>>
    /\ temp_np = FALSE
    /\ hour = 0
    /\ trace = <<>>
    /\ sim_calls = 0
    /\ total_cost = 0
    /\ baseline_cost = 0
    /\ result = NoResult
    /\ optimizer = HeatPumpOptimizer
    /\ history = <<>>
    /\ fingrid = NoFingrid

\* get_daily_plan up to the call of optimizer.optimize: both forecasts are
\* fetched and cut to 24 values, the start temperature is the band's midpoint.
PrepareInput ==
    /\ pc = "get_daily_plan"
    /\ LET weather_data == get_forecast(request.weather, PLAN_HOURS, request.now_hour)
           price_data == get_day_ahead_prices(request.prices, PLAN_HOURS, request.noise)
           current_temp == (request.band.min + request.band.max) \div 2
       IN  inputs' = OptimizationInput(request.device, request.band,
                                       current_temp - request.band.min,
                                       take(weather_data.temperature, PLAN_HOURS),
                                       take(price_data, PLAN_HOURS),
                                       take(weather_data.solar_radiation, PLAN_HOURS))
    /\ pc' = "optimize"
    /\ UNCHANGED <<error, simulator, price_categories, schedule, indoor_temps, temp_np, hour,
                   trace, sim_calls, total_cost, baseline_cost, result, optimizer, history,
                   request, fingrid>>

\* The rest of get_daily_plan: the plan is answered with 200, an exception of
\* optimize with 500.
Respond ==
    /\ pc \in {"done", "raised"}
    /\ request' = [request EXCEPT !.status = IF pc = "done" THEN 200 ELSE 500]
    /\ pc' = "responded"
    /\ UNCHANGED <<inputs, error, simulator, price_categories, schedule, indoor_temps, temp_np,
                   hour, trace, sim_calls, total_cost, baseline_cost, result, optimizer, history,
                   fingrid>>

PlanNext ==
    \/ PrepareInput
    \/ GreedySetup
    \/ GreedyHour
    \/ CalculateCost
    \/ CalculateBaselineCost
    \/ CreateResult
    \/ Respond

PlanSpec == PlanInit /\ [][PlanNext]_vars

\* ------------------------------------- FingridAPI._request_with_retries
MAX_RETRIES == 4

\* `for attempt in range(1, self.MAX_RETRIES + 1)`.
attempt_range_one_more == 1..(MAX_RETRIES + 1)
attempt_range == 1..MAX_RETRIES

\* What one GET can give: a success status, 429, a server error, another
\* error status, or an exception of the transport (timeout included).
Responses == {"2xx", "429", "5xx", "4xx", "exception"}

FingridInit ==
    /\ fingrid = [attempt |-> 1, requests |-> 0, sleeps |-> 0, resp |-> "", log |-> <<>>]
    /\ pc = "fingrid_request"
    /\ request = NoRequest
    /\ inputs = NoInput
    /\ error = ""
    /\ simulator = NoSimulator
    /\ price_categories = <<>>
    /\ schedule = <<>>
    /\ indoor_temps = <<>>
    /\ temp_np = FALSE
    /\ hour = 0
    /\ trace = <<>>
    /\ sim_calls = 0
    /\ total_cost = 0
    /\ baseline_cost = 0
    /\ result = NoResult
    /\ optimizer = HeatPumpOptimizer
    /\ history = <<>>

FingridFrame ==
    UNCHANGED <<inputs, simulator, price_categories, schedule, indoor_temps, temp_np, hour,
                trace, sim_calls, total_cost, baseline_cost, result, optimizer, history,
                request>>

\* A variant that gives up on the first server error.
FingridGetNoRetry ==
    /\ pc = "fingrid_request"
    /\ \E r \in Responses :
        /\ fingrid' = [fingrid EXCEPT !.requests = @ + 1, !.log = Append(@, r),
                                      !.resp = IF r = "2xx" THEN r ELSE @]
        /\ pc' = IF r = "2xx" THEN "returned"
                 ELSE IF r = "429" THEN "fingrid_sleep"
                 ELSE IF r = "exception" /\ fingrid.attempt < MAX_RETRIES THEN "fingrid_sleep"
                 ELSE "raised"
        /\ error' = IF r = "5xx" \/ r = "4xx" THEN "HTTPStatusError"
                    ELSE IF r = "exception" /\ fingrid.attempt >= MAX_RETRIES THEN "RequestError"
                    ELSE error
    /\ FingridFrame

\* One pass of the loop body up to its sleep, return or raise: the GET, then
\* 429 sleeps; raise_for_status raises on an error status, which is retried
\* when it is a server error and attempts remain; any other exception is
\* retried when attempts remain.
FingridGet ==
    /\ pc = "fingrid_request"
    /\ \E r \in Responses :
        /\ fingrid' = [fingrid EXCEPT !.requests = @ + 1, !.log = Append(@, r),
                                      !.resp = IF r = "2xx" THEN r ELSE @]
        /\ pc' = IF r = "2xx" THEN "returned"
                 ELSE IF r = "429" THEN "fingrid_sleep"
                 ELSE IF r = "5xx" /\ fingrid.attempt < MAX_RETRIES THEN "fingrid_sleep"
                 ELSE IF r = "exception" /\ fingrid.attempt < MAX_RETRIES THEN "fingrid_sleep"
                 ELSE "raised"
        /\ error' = IF r = "4xx" \/ (r = "5xx" /\ fingrid.attempt >= MAX_RETRIES)
                    THEN "HTTPStatusError"
                    ELSE IF r = "exception" /\ fingrid.attempt >= MAX_RETRIES THEN "RequestError"
                    ELSE error
    /\ FingridFrame

\* asyncio.sleep ends and `continue` takes the next attempt of the range; when
\* the range is used up the loop ends and the function returns None.
FingridSleep ==
    /\ pc = "fingrid_sleep"
    /\ IF fingrid.attempt + 1 \in attempt_range
       THEN /\ fingrid' = [fingrid EXCEPT !.sleeps = @ + 1, !.attempt = @ + 1]
            /\ pc' = "fingrid_request"
       ELSE /\ fingrid' = [fingrid EXCEPT !.sleeps = @ + 1, !.resp = "None"]
            /\ pc' = "returned"
    /\ UNCHANGED error
    /\ FingridFrame

\* _get_latest_value: resp.json() on what _request_with_retries returned.
GetLatestValue ==
    /\ pc = "returned"
    /\ IF fingrid.resp = "None"
       THEN /\ pc' = "value_raised"
            /\ error' = "AttributeError"
       ELSE /\ pc' = "value"
            /\ UNCHANGED error
    /\ UNCHANGED fingrid
    /\ FingridFrame

FingridNext ==
    \/ FingridGet
    \/ FingridSleep
    \/ GetLatestValue

FingridSpec == FingridInit /\ [][FingridNext]_vars

\* The GET ends (the clients are built with a timeout) and so does the sleep.
FingridLiveSpec == FingridSpec /\ WF_vars(FingridGet) /\ WF_vars(FingridSleep) /\ WF_vars(GetLatestValue)

\* ------------------------------------------------------------------ claims
\* Hour h (0-based) of the loop is entry h + 1 of trace, schedule and the
\* forecasts; the temperature recorded for it is indoor_temps[h + 2].
Processed == 1..Len(trace)

\* The first simulation of hour i: simulate_hour with the mode chosen for it.
FirstSimulation(i) ==
    simulate_hour(simulator, trace[i].t_current, inputs.outdoor_temps[i],
                  trace[i].chosen # "OFF", power_fractions(trace[i].chosen),
                  inputs.solar_radiation[i], trace[i].np).value

\* The BOOST-only simulation of hour i: heat pump on, power fraction 1.0.
BoostSimulation(i) ==
    simulate_hour(simulator, trace[i].t_current, inputs.outdoor_temps[i],
                  TRUE, 10, inputs.solar_radiation[i], trace[i].np).value

\* C1: for every processed hour, if the simulation with the chosen mode ends
\* strictly below comfort_min_temp, the final mode is BOOST and the recorded
\* temperature is the BOOST-only simulation from the hour's start temperature;
\* otherwise the chosen mode and the simulated temperature are kept.
C1_SafetyCorrection ==
    \A i \in Processed :
        IF FirstSimulation(i) < inputs.comfort_min_temp
        THEN schedule[i] = "BOOST" /\ indoor_temps[i + 1] = BoostSimulation(i)
        ELSE schedule[i] = trace[i].chosen /\ indoor_temps[i + 1] = FirstSimulation(i)

\* C1 witness: an hour whose chosen mode was not BOOST undershot, was forced to
\* BOOST, and its recorded temperature differs from the discarded one.
C1_Witness ==
    \E i \in Processed :
        /\ trace[i].chosen # "BOOST"
        /\ FirstSimulation(i) < inputs.comfort_min_temp
        /\ schedule[i] = "BOOST"
        /\ indoor_temps[i + 1] # FirstSimulation(i)

\* C2: the loop handles hours 0, 1, 2, ... in ascending order; hour 0 starts
\* from current_indoor_temp and every later hour starts from the final
\* temperature of the hour before it (the corrected one when the safety
\* correction fired), which is the temperature recorded for that hour.
C2_TemperatureCarry ==
    /\ Len(trace) = hour
    /\ \A i \in Processed : trace[i].hour = i - 1
    /\ Len(trace) >= 1 => trace[1].t_current = inputs.current_indoor_temp
    /\ \A i \in Processed :
          /\ indoor_temps[i + 1] = trace[i].t_new
          /\ trace[i].corrected => trace[i].t_new = BoostSimulation(i)
          /\ i < Len(trace) => trace[i + 1].t_current = trace[i].t_new

\* C2 witness: an hour started from a corrected temperature that differs from
\* the pre-correction value.
C2_Witness ==
    \E i \in Processed :
        /\ i < Len(trace)
        /\ trace[i].corrected
        /\ trace[i].t_new # trace[i].t_first
        /\ trace[i + 1].t_current = trace[i].t_new

\* The repository's get_cop on the arguments the next simulate_hour call of
\* the loop passes to it.
NextCop ==
    get_cop(inputs.heat_pump, inputs.outdoor_temps[hour + 1],
            indoor_temps[Len(indoor_temps)], temp_np)

\* C3: get_cop returns a value in [2.0, 5.0] and raises no arithmetic fault,
\* also when t_indoor equals the cold-side reference or lies below it: stated
\* of every get_cop call the greedy loop is about to make.
C3_CopTotal ==
    pc = "greedy_loop" =>
        /\ NextCop.exc = ""
        /\ NextCop.value >= COP_MIN
        /\ NextCop.value <= COP_MAX

\* Well-formed input: positive building and heat-pump parameters and three
\* forecasts of one length H >= 1.
SameLength ==
    /\ Len(inputs.outdoor_temps) = Len(inputs.electricity_prices)
    /\ Len(inputs.outdoor_temps) = Len(inputs.solar_radiation)
PositiveParameters ==
    /\ inputs.building.floor_area > 0
    /\ inputs.building.volume > 0
    /\ inputs.heat_pump.rated_power > 0
WellFormed == SameLength /\ Len(inputs.outdoor_temps) >= 1 /\ PositiveParameters

\* The start temperature equals the cold-side reference of the first hour: the
\* input on which get_cop faults (C3).
StartsAtColdSide ==
    /\ Len(inputs.outdoor_temps) >= 1
    /\ inputs.current_indoor_temp =
          (IF inputs.heat_pump.type = "ASHP" THEN inputs.outdoor_temps[1] ELSE GROUND_TEMP)

\* C4: optimize returns without raising for every well-formed input of every
\* horizon H >= 1, the baseline-cost step included.  Stated apart from the
\* inputs on which get_cop faults, so that what it refutes is the horizon.
C4_OptimizeTotal ==
    (WellFormed /\ ~StartsAtColdSide) => pc # "raised"

\* C5: when the three forecasts differ in length, or the horizon is 0,
\* optimize makes no simulate_hour call and returns no result.
C5_LengthsValidated ==
    (~SameLength \/ Len(inputs.outdoor_temps) = 0)
        => /\ sim_calls = 0
           /\ pc \notin {"create_result", "done"}

\* C6: when floor_area, volume or rated_power is zero or negative, no
\* simulation step runs and no temperature, schedule or cost is produced.
C6_ParametersValidated ==
    ~PositiveParameters
        => /\ sim_calls = 0
           /\ pc \notin {"baseline_cost", "create_result", "done"}

\* C7: on an expensive hour the mode chosen before simulation is a function of
\* the start temperature T alone: ECO if T > comfort_min + 2.0, NORMAL if
\* comfort_min + 0.5 < T <= comfort_min + 2.0, BOOST if T <= comfort_min + 0.5.
C7_ExpensiveHourMode ==
    \A i \in Processed :
        trace[i].category = "expensive" =>
            LET T == trace[i].t_current
                lo == inputs.comfort_min_temp + 500
                hi == inputs.comfort_min_temp + 2000
            IN  /\ T > hi => trace[i].chosen = "ECO"
                /\ (lo < T /\ T <= hi) => trace[i].chosen = "NORMAL"
                /\ T <= lo => trace[i].chosen = "BOOST"

\* C7 witness: an expensive hour started exactly at comfort_min + 2.0 and
\* chosen NORMAL, or exactly at comfort_min + 0.5 and chosen BOOST.
C7_Witness ==
    \E i \in Processed :
        /\ trace[i].category = "expensive"
        /\ \/ trace[i].t_current = inputs.comfort_min_temp + 2000 /\ trace[i].chosen = "NORMAL"
           \/ trace[i].t_current = inputs.comfort_min_temp + 500 /\ trace[i].chosen = "BOOST"

\* The price classes computed from the prices themselves, with whole numbers:
\* normalized < 30 iff (p - min) * 100 < 30 * (max - min), and so on.
PriceMin == SeqMin(inputs.electricity_prices)
PriceMax == SeqMax(inputs.electricity_prices)
ExactClass(p) ==
    LET n == (p - PriceMin) * 100
        r == PriceMax - PriceMin
    IN  IF n < 30 * r THEN "cheap" ELSE IF n < 70 * r THEN "moderate" ELSE "expensive"

\* The prices were classified: _greedy_optimize is past line 165.
Classified == pc \in {"greedy_loop", "calculate_cost", "baseline_cost", "create_result", "done"}
                 \/ (pc = "raised" /\ indoor_temps # <<>>)
Uniform == Len(inputs.electricity_prices) >= 1 /\ PriceMax = PriceMin

\* C8: with max > min every hour is cheap iff its normalized price is < 30,
\* moderate iff it is in [30, 70), expensive iff it is >= 70; every
\* minimum-price hour is cheap and every maximum-price hour expensive.
C8_PriceClasses ==
    (Classified /\ Len(inputs.electricity_prices) >= 1 /\ PriceMax > PriceMin) =>
        /\ Len(price_categories) = Len(inputs.electricity_prices)
        /\ \A i \in 1..Len(price_categories) :
              /\ price_categories[i] = ExactClass(inputs.electricity_prices[i])
              /\ inputs.electricity_prices[i] = PriceMin => price_categories[i] = "cheap"
              /\ inputs.electricity_prices[i] = PriceMax => price_categories[i] = "expensive"

\* C8 witness: a classified vector with an hour normalized to exactly 30,
\* classified moderate, and an hour normalized to exactly 70, classified
\* expensive.
C8_Witness ==
    /\ Classified
    /\ Len(inputs.electricity_prices) >= 1
    /\ PriceMax > PriceMin
    /\ \E i \in 1..Len(price_categories) :
          /\ (inputs.electricity_prices[i] - PriceMin) * 100 = 30 * (PriceMax - PriceMin)
          /\ price_categories[i] = "moderate"
    /\ \E i \in 1..Len(price_categories) :
          /\ (inputs.electricity_prices[i] - PriceMin) * 100 = 70 * (PriceMax - PriceMin)
          /\ price_categories[i] = "expensive"

\* C9: with all prices equal every hour is moderate, Phase 1 leaves every hour
\* NORMAL, Phase 2 chooses ECO for no hour (it keeps NORMAL), and an hour that
\* ends BOOST was corrected by the safety check.
C9_UniformPrices ==
    (Classified /\ Uniform) =>
        /\ \A i \in 1..Len(price_categories) : price_categories[i] = "moderate"
        /\ \A i \in 1..Len(schedule) : i > Len(trace) => schedule[i] = "NORMAL"
        /\ \A i \in Processed :
              /\ trace[i].phase1 = "NORMAL"
              /\ trace[i].chosen = "NORMAL"
              /\ schedule[i] \in {"NORMAL", "BOOST"}
              /\ schedule[i] = "BOOST" => trace[i].corrected

\* C9 witness: a run on equal prices in which the safety correction made an
\* hour BOOST.
C9_Witness ==
    /\ Classified
    /\ Uniform
    /\ \E i \in Processed : trace[i].corrected /\ schedule[i] = "BOOST"

\* C10: in the schedule of the processed hours every cheap hour is BOOST, every
\* moderate hour is NORMAL unless the safety correction fired for it, in which
\* case it is BOOST, and ECO stands only on expensive hours.
C10_ModesByClass ==
    \A i \in Processed :
        /\ price_categories[i] = "cheap" => schedule[i] = "BOOST"
        /\ price_categories[i] = "moderate" =>
              schedule[i] = (IF trace[i].corrected THEN "BOOST" ELSE "NORMAL")
        /\ schedule[i] = "ECO" => price_categories[i] = "expensive"

\* C10 witness: a schedule returned by the greedy pass with a cheap hour, a
\* moderate hour the safety correction turned to BOOST, a moderate hour left
\* NORMAL and an ECO hour.
C10_Witness ==
    /\ pc = "calculate_cost"
    /\ \E i \in Processed : price_categories[i] = "cheap" /\ schedule[i] = "BOOST"
    /\ \E i \in Processed : price_categories[i] = "moderate" /\ trace[i].corrected
    /\ \E i \in Processed : price_categories[i] = "moderate" /\ schedule[i] = "NORMAL"
    /\ \E i \in Processed : schedule[i] = "ECO"

\* C11: a step of the greedy pass leaves the mode and the recorded temperature
\* of every hour whose iteration has already finished as they were.
C11_NoRevision ==
    [][\A i \in Processed :
          /\ schedule'[i] = schedule[i]
          /\ indoor_temps'[i + 1] = indoor_temps[i + 1]]_vars

\* C11 witness: a later hour was corrected to BOOST while an earlier hour keeps
\* the other mode and the temperature its own iteration ended with.
C11_Witness ==
    \E i \in Processed : \E k \in Processed :
        /\ i < k
        /\ trace[k].corrected
        /\ ~trace[i].corrected
        /\ schedule[i] = trace[i].chosen
        /\ schedule[i] # "BOOST"
        /\ indoor_temps[i + 1] = trace[i].t_new
        /\ indoor_temps[i + 1] # indoor_temps[k + 1]

\* An hour whose BOOST re-simulation still ended below comfort_min_temp.
Undershoots(i) ==
    trace[i].corrected /\ BoostSimulation(i) < inputs.comfort_min_temp

\* The greedy half of C12: the undershooting temperature is recorded with
\* BOOST and the loop goes on to the next hour.
C12_GreedyAccepts ==
    \A i \in Processed :
        Undershoots(i) =>
            /\ schedule[i] = "BOOST"
            /\ indoor_temps[i + 1] = BoostSimulation(i)
            /\ hour >= i
            /\ (pc = "greedy_loop" => hour < Len(inputs.outdoor_temps))

\* C12: on well-formed inputs, an hour whose BOOST re-simulation still ends
\* below comfort_min_temp is recorded with BOOST, no error is raised, and the
\* returned schedule has one entry for each of the H hours.
C12_UndershootAccepted ==
    \A i \in Processed :
        (WellFormed /\ Undershoots(i)) =>
            /\ schedule[i] = "BOOST"
            /\ indoor_temps[i + 1] = BoostSimulation(i)
            /\ pc # "raised"
            /\ (pc = "done" => Len(result.schedule) = Len(inputs.outdoor_temps))

\* The power fractions named by the spec, in tenths.
SpecFraction(mode) ==
    CASE mode = "BOOST" -> 10
      [] mode = "NORMAL" -> 7
      [] mode = "ECO" -> 3
      [] mode = "OFF" -> 0

\* Sum over the first n hours of rated_power x fraction x price.
RECURSIVE SumCost(_, _)
SumCost(modes, n) ==
    IF n = 0 THEN 0
    ELSE SumCost(modes, n - 1)
         + inputs.heat_pump.rated_power * SpecFraction(modes[n]) * inputs.electricity_prices[n]

Costed == pc \in {"baseline_cost", "create_result", "done"}

\* C13: the total cost is the sum over the hours of the schedule of
\* rated_power x fraction(final mode) x price, a function of the modes and the
\* prices alone; the returned total_cost is that sum.
C13_TotalCost ==
    /\ Costed => total_cost = SumCost(schedule, Len(schedule))
    /\ pc = "done" =>
          /\ Len(result.schedule) = Len(inputs.outdoor_temps)
          /\ result.total_cost = SumCost([i \in 1..Len(result.schedule) |-> result.schedule[i].mode],
                                         Len(result.schedule))

\* C13 witness: a returned plan that mixes the three modes, costs something, and
\* has an ECO hour priced although it is warmer outside than inside.
C13_Witness ==
    /\ pc = "done"
    /\ result.total_cost > 0
    /\ {"BOOST", "NORMAL", "ECO"} \subseteq {schedule[i] : i \in 1..Len(schedule)}
    /\ \E i \in 1..Len(schedule) :
          /\ inputs.outdoor_temps[i] >= indoor_temps[i]
          /\ inputs.electricity_prices[i] > 0

\* C14: the returned baseline_cost is the sum over the H hours of
\* rated_power x 0.7 x price, and savings is baseline_cost - total_cost.
C14_BaselineCost ==
    pc = "done" =>
        /\ result.baseline_cost =
              SumCost([i \in 1..Len(inputs.outdoor_temps) |-> "NORMAL"], Len(inputs.outdoor_temps))
        /\ result.savings = result.baseline_cost - result.total_cost

\* C14 witness: a returned plan that costs more than the baseline.
C14_Witness ==
    /\ pc = "done"
    /\ result.baseline_cost > 0
    /\ result.savings < 0

\* C15: simulate_day on three arrays of the same length H >= 1 does not index
\* past their end and returns exactly H temperatures.
C15_DayLength ==
    (/\ inputs.fn = "simulate_day"
     /\ Len(inputs.t_outdoor_hourly) >= 1
     /\ Len(inputs.heat_pump_schedule) = Len(inputs.t_outdoor_hourly)
     /\ Len(inputs.solar_radiation_hourly) = Len(inputs.t_outdoor_hourly)) =>
        /\ error # "IndexError"
        /\ pc = "returned" => Len(result.temps) = Len(inputs.t_outdoor_hourly)

\* Whether an earlier hour of the day ran the heat pump, which makes the
\* temperature handed to hour h a numpy scalar.
OnBefore(h) == \E k \in 1..(h - 1) : inputs.heat_pump_schedule[k]

\* C16: each element of the result of simulate_day is simulate_hour applied to
\* the element before it (the initial temperature for the first), with that
\* hour's outdoor temperature, on/off flag and solar radiation and the power
\* fraction 0.7; the result has one element for each simulate_hour call, so the
\* initial temperature is not among them.
C16_DayFold ==
    (inputs.fn = "simulate_day" /\ pc = "returned") =>
        /\ Len(result.temps) = sim_calls
        /\ \A h \in 1..Len(result.temps) :
              result.temps[h] =
                  simulate_hour(simulator,
                                IF h = 1 THEN inputs.t_indoor_initial ELSE result.temps[h - 1],
                                inputs.t_outdoor_hourly[h], inputs.heat_pump_schedule[h], 7,
                                inputs.solar_radiation_hourly[h], OnBefore(h)).value

\* C16 witness: a returned day with the heat pump on in some hours and off in
\* others, whose first element is not the initial temperature.
C16_Witness ==
    /\ inputs.fn = "simulate_day"
    /\ pc = "returned"
    /\ \E h \in 1..Len(result.temps) : inputs.heat_pump_schedule[h]
    /\ \E h \in 1..Len(result.temps) : ~inputs.heat_pump_schedule[h]
    /\ result.temps[1] # inputs.t_indoor_initial
    /\ simulator.heat_pump.rated_power > 0

\* C17: the simulation step of the greedy loop and estimate_power_consumption
\* use the fractions BOOST 1.0, NORMAL 0.7, ECO 0.3, OFF 0.0; in mode OFF the
\* heat-pump heat input is zero, the step cannot fail, and the estimate is 0.
C17_PowerFractions ==
    /\ (inputs.fn = "greedy_simulate" /\ pc = "returned") =>
          /\ result.fraction = SpecFraction(inputs.mode)
          /\ result.heat_pump_on <=> inputs.mode # "OFF"
          /\ IF inputs.mode = "OFF"
             THEN result.q_heat_pump = 0
             ELSE result.q_heat_pump =
                      get_cop(simulator.heat_pump, inputs.t_outdoor, inputs.t_current, inputs.np).value
                      * simulator.heat_pump.rated_power * SpecFraction(inputs.mode) * 100
    /\ (inputs.fn = "greedy_simulate" /\ inputs.mode = "OFF") => pc # "raised"
    /\ (inputs.fn = "estimate_power_consumption" /\ pc = "returned") =>
          /\ result.energy = simulator.heat_pump.rated_power * SpecFraction(inputs.mode)
          /\ inputs.mode = "OFF" => result.energy = 0

\* C17 witness: an hour simulated in mode OFF on a device with a working heat
\* pump: no heat input, and the house cools.
C17_Witness ==
    /\ inputs.fn = "greedy_simulate"
    /\ pc = "returned"
    /\ inputs.mode = "OFF"
    /\ simulator.heat_pump.rated_power > 0
    /\ result.q_heat_pump = 0
    /\ result.t_new < inputs.t_current

\* simulate_hour of the call in the state, at another outdoor temperature.
HourAt(t_outdoor) ==
    simulate_hour(simulator, inputs.t_indoor_current, t_outdoor, inputs.heat_pump_on,
                  inputs.heat_pump_power_fraction, inputs.solar_radiation, inputs.np).value

\* C18: with the heat pump off, a higher outdoor temperature never gives a
\* lower indoor temperature, all other arguments being equal.
C18_OutdoorMonotone ==
    (inputs.fn = "simulate_hour" /\ ~inputs.heat_pump_on /\ pc = "returned") =>
        \A t_outdoor2 \in OutdoorValues :
            /\ inputs.t_outdoor <= t_outdoor2 => result.t_new <= HourAt(t_outdoor2)
            /\ t_outdoor2 <= inputs.t_outdoor => HourAt(t_outdoor2) <= result.t_new

\* C18 witness: a heat-pump-off call for which a higher outdoor temperature
\* gives a strictly higher indoor temperature.
C18_Witness ==
    /\ inputs.fn = "simulate_hour"
    /\ ~inputs.heat_pump_on
    /\ pc = "returned"
    /\ \E t_outdoor2 \in OutdoorValues :
          inputs.t_outdoor < t_outdoor2 /\ result.t_new < HourAt(t_outdoor2)

InBand(t) == inputs.comfort_min <= t /\ t <= inputs.comfort_max

\* C19: a trajectory that lies within the closed band scores exactly 100 with
\* no hour outside.
C19_InBandScore ==
    (/\ inputs.fn = "calculate_comfort_score"
     /\ pc = "returned"
     /\ \A i \in 1..Len(inputs.indoor_temps) : InBand(inputs.indoor_temps[i])) =>
        result.score = 100000 /\ result.hours_outside = 0

\* C19 witness: a scored trajectory that touches both limits of the band.
C19_Witness ==
    /\ inputs.fn = "calculate_comfort_score"
    /\ pc = "returned"
    /\ \A i \in 1..Len(inputs.indoor_temps) : InBand(inputs.indoor_temps[i])
    /\ \E i \in 1..Len(inputs.indoor_temps) : inputs.indoor_temps[i] = inputs.comfort_min
    /\ \E i \in 1..Len(inputs.indoor_temps) : inputs.indoor_temps[i] = inputs.comfort_max
    /\ result.score = 100000

\* The violation of the spec: the distance below the band, else above it.
SpecViolation(t) ==
    IF t < inputs.comfort_min THEN inputs.comfort_min - t
    ELSE IF t > inputs.comfort_max THEN t - inputs.comfort_max
    ELSE 0

\* Over the first n temperatures: hours below or above the band, violations
\* above 2.0, and the sum of the violations.
RECURSIVE Tally(_)
Tally(n) ==
    IF n = 0 THEN [outside |-> 0, severe |-> 0, sum |-> 0]
    ELSE LET t == inputs.indoor_temps[n]
             rest == Tally(n - 1)
         IN  [outside |-> rest.outside + (IF t < inputs.comfort_min THEN 1 ELSE 0)
                                       + (IF t > inputs.comfort_max THEN 1 ELSE 0),
              severe |-> rest.severe + (IF SpecViolation(t) > 2000 THEN 1 ELSE 0),
              sum |-> rest.sum + SpecViolation(t)]

\* 100 - 3 x hours_outside - 5 x count(violation > 2.0) - 10 x mean(violation),
\* in thousandths; the mean of no violations is 0.
SpecScore ==
    LET n == Len(inputs.indoor_temps)
        tally == Tally(n)
    IN  100000 - 3000 * tally.outside - 5000 * tally.severe
               - (IF n = 0 THEN 0 ELSE (10 * tally.sum) \div n)

\* C20: for every trajectory and band, hours_outside is the number of
\* temperatures below the band plus the number above it, and the score is the
\* formula of the spec clamped into [0, 100].
C20_ScoreFormula ==
    (inputs.fn = "calculate_comfort_score" /\ pc = "returned") =>
        /\ result.hours_outside = Tally(Len(inputs.indoor_temps)).outside
        /\ result.score = (IF SpecScore < 0 THEN 0 ELSE IF SpecScore > 100000 THEN 100000 ELSE SpecScore)
        /\ result.score >= 0
        /\ result.score <= 100000

\* C20 witness: every hour is outside the band, the formula goes below zero
\* and the score returned is 0.
C20_Witness ==
    /\ inputs.fn = "calculate_comfort_score"
    /\ pc = "returned"
    /\ SpecScore < 0
    /\ result.score = 0
    /\ result.hours_outside = Len(inputs.indoor_temps)

\* The trajectories of the length of the scored one it is compared with, and
\* what the same call returns for one of them.
Peers == [1..Len(inputs.indoor_temps) -> PeerValues]
PeerScore(peer) == calculate_comfort_score(peer, inputs.comfort_min, inputs.comfort_max)

RECURSIVE ViolationSum(_)
ViolationSum(t) == IF t = <<>> THEN 0 ELSE SpecViolation(Head(t)) + ViolationSum(Tail(t))

RECURSIVE SevereCount(_)
SevereCount(t) ==
    IF t = <<>> THEN 0
    ELSE (IF SpecViolation(Head(t)) > 2000 THEN 1 ELSE 0) + SevereCount(Tail(t))

\* C21: of two trajectories of the same length with the same mean violation,
\* scored against the same band, the one with more hours outside never gets
\* the higher score.
C21_MoreOutsideNotHigher ==
    (inputs.fn = "calculate_comfort_score" /\ pc = "returned") =>
        \A peer \in Peers :
            (/\ ViolationSum(peer) = ViolationSum(inputs.indoor_temps)
             /\ PeerScore(peer).hours_outside > result.hours_outside) =>
                PeerScore(peer).score <= result.score

\* C21 as amended: the same, for two trajectories that also have the same
\* number of violations above 2.0.
C21_MoreOutsideSameSevere ==
    (inputs.fn = "calculate_comfort_score" /\ pc = "returned") =>
        \A peer \in Peers :
            (/\ ViolationSum(peer) = ViolationSum(inputs.indoor_temps)
             /\ SevereCount(peer) = SevereCount(inputs.indoor_temps)
             /\ PeerScore(peer).hours_outside > result.hours_outside) =>
                PeerScore(peer).score <= result.score

\* C21 witness: a scored trajectory and a peer with the same mean violation and
\* the same number of severe violations, the peer with more hours outside and
\* the strictly lower score.
C21_Witness ==
    /\ inputs.fn = "calculate_comfort_score"
    /\ pc = "returned"
    /\ \E peer \in Peers :
          /\ ViolationSum(peer) = ViolationSum(inputs.indoor_temps)
          /\ SevereCount(peer) = SevereCount(inputs.indoor_temps)
          /\ SevereCount(peer) > 0
          /\ PeerScore(peer).hours_outside > result.hours_outside
          /\ PeerScore(peer).score < result.score

\* C22: for the 100 m2, 250 m3, medium-insulation building (UA = 120 W/K,
\* C = 10^7 J/K) with the 6 kW ASHP, an hour from 21 C at -5 C outdoors with the
\* heat pump off and no sun ends at 21 - 1.1232 = 19.8768 C: within 0.01 of
\* 19.88, and within the model's 0.001 resolution of 19.8768.
C22_WorkedExample ==
    (/\ inputs.fn = "simulate_hour"
     /\ pc = "returned"
     /\ inputs.building = House
     /\ inputs.heat_pump = [type |-> "ASHP", rated_power |-> 6, rated_cop |-> 3500]
     /\ inputs.t_indoor_current = 21000
     /\ inputs.t_outdoor = -5000
     /\ ~inputs.heat_pump_on
     /\ inputs.solar_radiation = 0) =>
        /\ simulator.UA = 120
        /\ simulator.C = 10000000
        /\ result.t_new >= 19870 /\ result.t_new <= 19890
        /\ result.t_new >= 19876 /\ result.t_new <= 19877

\* C22 witness: the call of the worked example has returned.
C22_Witness ==
    /\ inputs.fn = "simulate_hour"
    /\ pc = "returned"
    /\ inputs.building = House
    /\ inputs.heat_pump = [type |-> "ASHP", rated_power |-> 6, rated_cop |-> 3500]
    /\ inputs.t_indoor_current = 21000
    /\ inputs.t_outdoor = -5000
    /\ ~inputs.heat_pump_on
    /\ inputs.solar_radiation = 0
    /\ result.t_new < inputs.t_indoor_current

\* The calls of the session that have finished, the current one included.
Finished ==
    IF pc \in {"done", "raised"} THEN Append(history, Outcome) ELSE history

\* C23: any two finished optimize() calls of a session that had equal inputs
\* raised the same error or returned equal schedules, trajectories and costs,
\* whatever calls came before or between them.
C23_SameInputsSameResult ==
    \A i \in 1..Len(Finished) : \A j \in 1..Len(Finished) :
        Finished[i].inputs = Finished[j].inputs =>
            /\ Finished[i].error = Finished[j].error
            /\ Finished[i].result = Finished[j].result

\* C23 witness: the first and the third call had the same inputs and returned
\* a plan, the call between them had other inputs and another outcome.
C23_Witness ==
    /\ Len(Finished) = 3
    /\ Finished[1].inputs = Finished[3].inputs
    /\ Finished[2].inputs # Finished[1].inputs
    /\ Finished[2].result # Finished[1].result
    /\ Finished[1].error = ""
    /\ Finished[3].result.schedule # <<>>

\* C24: no step of optimize, simulate_hour, simulate_day or
\* calculate_comfort_score changes the arguments of the call (the forecasts,
\* the building and heat-pump parameters, the scored trajectory), and once the
\* simulator is built its UA, C and window_area stay as they are.
C24_InputsUnchanged ==
    [][/\ inputs' = inputs
       /\ pc # "optimize" => simulator' = simulator]_vars

\* C24 witness: optimize has returned a plan, the simulator is still the one
\* built from the building and heat-pump parameters, and the forecasts are the
\* ones the entries of the plan were made from.
C24_Witness ==
    /\ pc = "done"
    /\ result.schedule # <<>>
    /\ simulator = ThermalSimulator(inputs.building, inputs.heat_pump)
    /\ \A i \in 1..Len(result.schedule) :
          /\ result.schedule[i].electricity_price = inputs.electricity_prices[i]
          /\ result.schedule[i].outdoor_temp = round1(inputs.outdoor_temps[i])

\* C25: every OptimizationInput that get_daily_plan hands to optimize has
\* outdoor_temps, electricity_prices and solar_radiation of the horizon
\* length 24, whatever the weather and price services answered.
C25_HorizonLengths ==
    pc # "get_daily_plan" =>
        /\ Len(inputs.outdoor_temps) = PLAN_HOURS
        /\ Len(inputs.electricity_prices) = PLAN_HOURS
        /\ Len(inputs.solar_radiation) = PLAN_HOURS

\* C26: _request_with_retries always terminates and issues at most
\* MAX_RETRIES GET requests, whatever the server answers.
C26_BoundedRetries ==
    /\ [](fingrid.requests <= MAX_RETRIES)
    /\ <>(pc \in {"returned", "raised"})

\* Four requests, each answered differently, the last one with success.
C26_Witness ==
    /\ pc = "returned"
    /\ fingrid.requests = MAX_RETRIES
    /\ fingrid.log = <<"429", "5xx", "exception", "2xx">>

Retried == {"429", "5xx", "exception"}

\* What follows the GET that received r at the given attempt.
RetryStep ==
    fingrid'.requests = fingrid.requests + 1 =>
        LET r == fingrid'.log[Len(fingrid'.log)]
        IN  /\ r \in Retried /\ fingrid.attempt < MAX_RETRIES => pc' = "fingrid_sleep"
            /\ r \in {"5xx", "exception"} /\ fingrid.attempt = MAX_RETRIES =>
                   /\ pc' = "raised"
                   /\ error' = IF r = "5xx" THEN "HTTPStatusError" ELSE "RequestError"
            /\ r = "4xx" => pc' = "raised" /\ error' = "HTTPStatusError"

\* C27: 429, 5xx and a transport exception lead to a sleep and then another
\* attempt while attempts remain; 5xx or an exception on the last attempt is
\* re-raised; another error status is raised on the attempt that received it,
\* and no request follows it.
C27_RetryPolicy ==
    /\ [][RetryStep]_vars
    /\ [](\A i \in 1..Len(fingrid.log) :
            fingrid.log[i] = "4xx" => i = Len(fingrid.log) /\ pc = "raised")
    /\ \A n \in 1..(MAX_RETRIES - 1) :
           (pc = "fingrid_sleep" /\ fingrid.attempt = n) ~> (fingrid.requests = n + 1)

\* Three retried answers of the three kinds, then a server error on the last
\* attempt, which is raised.
C27_Witness ==
    /\ pc = "raised"
    /\ error = "HTTPStatusError"
    /\ fingrid.sleeps = MAX_RETRIES - 1
    /\ fingrid.log = <<"429", "5xx", "exception", "5xx">>

\* C28: a call of _request_with_retries either returns a response whose
\* status is not an error status or raises; it never returns without a
\* response.
C28_ResponseOrException ==
    pc = "returned" => fingrid.resp = "2xx"

C30_ResultShape ==
    pc = "done" =>
        LET H == Len(inputs.outdoor_temps)
        IN  /\ Len(result.schedule) = H
            /\ \A i \in 1..H : result.schedule[i].hour = i - 1
            /\ Len(result.indoor_temps) = H
            /\ Len(trace) = H
            /\ result.indoor_temps[1] = inputs.current_indoor_temp
            /\ \A h \in 1..(H - 1) : result.indoor_temps[h + 1] = trace[h].t_new
            /\ \A i \in 1..H :
                   /\ result.schedule[i].expected_indoor_temp = round1(result.indoor_temps[i])
                   /\ result.indoor_temps[i] = trace[i].t_current
            /\ Len(indoor_temps) = H + 1
            /\ indoor_temps[H + 1] = trace[H].t_new
            /\ result.indoor_temps = SubSeq(indoor_temps, 1, H)

\* A returned day with a corrected hour, whose last simulated temperature is
\* no value of the result.
C30_Witness ==
    /\ pc = "done"
    /\ Len(result.schedule) = DAY_HOURS
    /\ \E h \in 1..(DAY_HOURS - 1) :
           /\ trace[h].corrected
           /\ trace[h].t_first # trace[h].t_new
           /\ result.indoor_temps[h + 1] = trace[h].t_new
    /\ \A i \in 1..DAY_HOURS :
           /\ result.indoor_temps[i] # trace[DAY_HOURS].t_new
           /\ result.schedule[i].expected_indoor_temp # round1(trace[DAY_HOURS].t_new)

====
